---- MODULE Spec2Model ----
(***************************************************************************)
(* Daily FEFO dosage engine of med_inventory (src/src/apply_daily_dosage.py)*)
(* over the SQLite ledger declared in src/src/create_schema.py, with the    *)
(* dashboard's Receive, Adjust and Run forms (src/src/app.py) and the       *)
(* workbook loader (src/src/ingest_excel.py) as the other writers of that   *)
(* ledger.                                                                  *)
(*                                                                          *)
(* Dates are day numbers 1..MaxDate, medicine ids are 1..NumMeds and batch  *)
(* ids are 1..NumBatches (AUTOINCREMENT order).  Quantities are integers:   *)
(* stock_units and the dosage slots are INTEGER columns and the ingestion   *)
(* casts them with astype(int), so float(need) and float(stock) are whole   *)
(* numbers and "remaining > 1e-6" is "remaining > 0".                       *)
(***************************************************************************)
EXTENDS Integers, Sequences, FiniteSets, TLC

\* ---------------------------------------------------------------- bounds
NumMeds    == 2
NumBatches == 3
MaxStock   == 2
MaxDate    == 2
MaxSlot    == 1
MaxDose    == 2
MaxRuns    == 2
MaxAdjusts == 1
MaxReceipts == 2

\* ------------------------------------------------------- program constants
NULL      == 0      \* SQL NULL of a nullable column (expiry_date, batch_id)
ANCHOR_HH == 20     \* log_ts: "20:00:00"

MedIds   == 1..NumMeds
BatchIds == 1..NumBatches
Dates    == 1..MaxDate

VARIABLES
  batches,       \* durable table batches: batch_id -> row
  stock_moves,   \* durable table stock_moves: sequence of rows, index = id
  daily_dosage,  \* table daily_dosage in rowid order: sequence of rows
  pc,            \* position of the invocation of main()
  run_date,      \* args.date of the invocation
  force,         \* args.force of the invocation
  tx_batches,    \* batches as seen by the open connection (uncommitted)
  tx_moves,      \* stock_moves as seen by the open connection (uncommitted)
  plan,          \* rows of the plan still to be processed by the for loop
  runs,          \* number of invocations so far
  stock0,        \* history: stock_units of each batch before the first run
  pre,           \* history: the durable ledger when the invocation started
  prev,          \* history: date and outcome of the previous invocation
  rolled_back,   \* history: the failed invocation had uncommitted changes
  out,           \* exit status and printed lines of the invocation
  pc2,           \* a second, overlapping invocation of main(): its position,
  run_date2,     \*   its args.date,
  force2,        \*   its args.force,
  tx2_batches,   \*   batches as seen by its connection,
  tx2_moves,     \*   stock_moves as seen by its connection,
  plan2,         \*   and the rows of its plan still to be processed
  id_to_stock,   \* dashboard: stock_units per batch_id as q() returned them
  adj,           \* dashboard: the adjustment whose movement is still to log
  rcv,           \* dashboard: the receipts whose movement is still to log
  batch_no,      \* column batches.batch_no: batch_id -> label
  receipts,      \* number of Receive forms submitted so far
  workbook       \* data/inventory.xlsx: the BatchesTb sheet, in row order

\* The second invocation and the dashboard session.
job2 == <<pc2, run_date2, force2, tx2_batches, tx2_moves, plan2>>
recv == <<rcv, batch_no, receipts>>
dash == <<id_to_stock, adj, recv>>

vars == <<batches, stock_moves, daily_dosage, pc, run_date, force,
          tx_batches, tx_moves, plan, runs, stock0, pre, prev, rolled_back,
          out, job2, dash, workbook>>

\* ------------------------------------------------------------- helpers
Min(a, b) == IF a <= b THEN a ELSE b

\* log_ts(run_date): the run date with the fixed time of day.
log_ts(d) == [date |-> d, time |-> ANCHOR_HH]

\* SQLite date(ts): the calendar date of a timestamp.
sql_date(ts) == ts.date

\* v_daily_units: one row per daily_dosage row, units_per_day = sum of slots
\* (the ingestion fills empty slots with 0, so COALESCE(slot, 0) = slot).
units_per_day(row) ==
  row.before_bf + row.after_bf + row.at_8pm + row.after_dinner

v_daily_units ==
  [i \in 1..Len(daily_dosage) |->
     [medicine_id  |-> daily_dosage[i].medicine_id,
      units_per_day |-> units_per_day(daily_dosage[i])]]

\* -------------------------------------------------------------- tables
\* batches.medicine_id of the batches of the initial ledger: the batches are
\* dealt to the medicines in turn, so medicine 1 owns several batches.
medicine_of(b) == ((b - 1) % NumMeds) + 1

BatchRows(b) ==
  [medicine_id : {medicine_of(b)},
   stock_units : 0..MaxStock,            \* CHECK (stock_units >= 0)
   expiry_date : {NULL} \cup Dates]

\* A daily_dosage row; the slots are listed largest first (the sum, which is
\* all the engine reads, does not depend on which slot holds a dose).
DosageRows(m) ==
  {r \in [medicine_id : {m}, before_bf : 0..MaxSlot, after_bf : 0..MaxSlot,
          at_8pm : 0..MaxSlot, after_dinner : 0..MaxSlot] :
     /\ r.before_bf >= r.after_bf /\ r.after_bf >= r.at_8pm
     /\ r.at_8pm >= r.after_dinner
     /\ units_per_day(r) <= MaxDose}

\* daily_dosage tables: medicine_id is the PRIMARY KEY, rows in rowid order.
DosageTables ==
  {t \in UNION {[1..n -> UNION {DosageRows(m) : m \in MedIds}] : n \in 0..NumMeds} :
     \A i, j \in DOMAIN t : i # j => t[i].medicine_id # t[j].medicine_id}

\* Table medicines: the ids stock_moves.medicine_id may reference.
medicines == MedIds

\* A medicine id that table medicines does not hold.
OrphanId == NumMeds + 1

\* daily_dosage tables of a database file written without foreign-key
\* enforcement (SQLite's default): one row is for OrphanId.
OrphanTables ==
  {t \in UNION {[1..n -> UNION {DosageRows(m) : m \in MedIds \cup {OrphanId}}] :
                  n \in 1..(NumMeds + 1)} :
     /\ \A i, j \in DOMAIN t : i # j => t[i].medicine_id # t[j].medicine_id
     /\ \E i \in DOMAIN t : t[i].medicine_id = OrphanId}

\* ------------------------------------------------------ already_ran_for
\* Faulty variant: the query has no reason = 'daily_dose' condition.
already_ran_for_any_reason(moves, d) ==
  \E i \in DOMAIN moves : sql_date(moves[i].ts) = d

already_ran_for(moves, d) ==
  \E i \in DOMAIN moves :
     moves[i].reason = "daily_dose" /\ sql_date(moves[i].ts) = d

\* -------------------------------------------------------- scrap_expired
\* Faulty variant: the IS NOT NULL test is missing and NULL compares low.
to_scrap_null_too(bs, d) ==
  {b \in DOMAIN bs : bs[b].stock_units > 0 /\ bs[b].expiry_date < d}

\* Faulty variant: the date comparison is the wrong way round.
to_scrap_reversed(bs, d) ==
  {b \in DOMAIN bs : bs[b].stock_units > 0 /\ bs[b].expiry_date # NULL
                       /\ bs[b].expiry_date > d}

\* Faulty variant: the stock_units > 0 test is missing.
to_scrap_empty_too(bs, d) ==
  {b \in DOMAIN bs : bs[b].expiry_date # NULL /\ bs[b].expiry_date < d}

\* Faulty variant: a batch that expires on the run date is scrapped too.
to_scrap_on_or_before(bs, d) ==
  {b \in DOMAIN bs : bs[b].stock_units > 0 /\ bs[b].expiry_date # NULL
                       /\ bs[b].expiry_date <= d}

\* _to_scrap: batches with stock whose expiry date is before the run date.
to_scrap(bs, d) ==
  {b \in DOMAIN bs : bs[b].stock_units > 0 /\ bs[b].expiry_date # NULL
                       /\ bs[b].expiry_date < d}

\* Faulty variant: the movement reads the quantity after the batch was zeroed.
expired_move_after_update(bs, b, d) ==
  [ts |-> log_ts(d), medicine_id |-> bs[b].medicine_id, batch_id |-> b,
   qty_change |-> 0, reason |-> "expired", note |-> <<d>>]

expired_move(bs, b, d) ==
  [ts |-> log_ts(d), medicine_id |-> bs[b].medicine_id, batch_id |-> b,
   qty_change |-> -bs[b].stock_units, reason |-> "expired", note |-> <<d>>]

\* The orders in which INSERT ... SELECT FROM _to_scrap may append its rows.
Orderings(S) ==
  {o \in [1..Cardinality(S) -> S] : \A i, j \in DOMAIN o : i # j => o[i] # o[j]}

\* ---------------------------------------------------------- fefo_deduct
\* WHERE medicine_id = ? AND stock_units > 0
\*   AND (expiry_date IS NULL OR date(expiry_date) >= date(?))
eligible(bs, med, d) ==
  {b \in DOMAIN bs : bs[b].medicine_id = med /\ bs[b].stock_units > 0
                       /\ (bs[b].expiry_date = NULL \/ bs[b].expiry_date >= d)}

\* Faulty variant: ORDER BY date(expiry_date) ASC, batch_id ASC (NULL sorts first).
fefo_before_nulls_first(bs, a, b) ==
  \/ bs[a].expiry_date < bs[b].expiry_date
  \/ bs[a].expiry_date = bs[b].expiry_date /\ a < b

\* ORDER BY (expiry_date IS NULL) ASC, date(expiry_date) ASC, batch_id ASC
fefo_before(bs, a, b) ==
  LET na == IF bs[a].expiry_date = NULL THEN 1 ELSE 0
      nb == IF bs[b].expiry_date = NULL THEN 1 ELSE 0
  IN  \/ na < nb
      \/ na = nb /\ bs[a].expiry_date < bs[b].expiry_date
      \/ na = nb /\ bs[a].expiry_date = bs[b].expiry_date /\ a < b

RECURSIVE fefo_sort(_, _)
fefo_sort(bs, S) ==
  IF S = {} THEN <<>>
  ELSE LET m == CHOOSE x \in S : \A y \in S \ {x} : fefo_before(bs, x, y)
       IN  <<m>> \o fefo_sort(bs, S \ {m})

candidates(bs, med, d) == fefo_sort(bs, eligible(bs, med, d))

\* Faulty variant: the movement records the quantity taken without the sign.
dose_move_unsigned(d, med, b, take) ==
  [ts |-> log_ts(d), medicine_id |-> med, batch_id |-> b,
   qty_change |-> take, reason |-> "daily_dose", note |-> <<d>>]

dose_move(d, med, b, take) ==
  [ts |-> log_ts(d), medicine_id |-> med, batch_id |-> b,
   qty_change |-> -take, reason |-> "daily_dose", note |-> <<d>>]

shortfall_move(d, med, remaining) ==
  [ts |-> log_ts(d), medicine_id |-> med, batch_id |-> NULL,
   qty_change |-> 0, reason |-> "shortfall", note |-> <<remaining, d>>]

\* Faulty variant: the whole batch is taken whatever is still needed.
take_whole_batch(stock, remaining) == stock

\* take = min(float(stock), remaining)
take_of(stock, remaining) == Min(stock, remaining)

\* The inner loop over the fetched candidates: st = [bs, ms, remaining].
RECURSIVE walk(_, _, _, _)
walk(cands, st, med, d) ==
  IF cands = <<>> \/ st.remaining <= 0 THEN st
  ELSE LET b    == Head(cands)
           take == take_of(st.bs[b].stock_units, st.remaining)
       IN  IF take <= 0 THEN walk(Tail(cands), st, med, d)
           ELSE walk(Tail(cands),
                     [bs |-> [st.bs EXCEPT ![b].stock_units = @ - take],
                      ms |-> Append(st.ms, dose_move(d, med, b, take)),
                      remaining |-> st.remaining - take],
                     med, d)

\* Faulty variant: the shortfall test is "remaining >= 0".
deduct_item_shortfall_when_met(bs, ms, med, need, d) ==
  LET st == walk(candidates(bs, med, d),
                 [bs |-> bs, ms |-> ms, remaining |-> need], med, d)
  IN  [bs |-> st.bs,
       ms |-> IF st.remaining >= 0
                THEN Append(st.ms, shortfall_move(d, med, st.remaining))
                ELSE st.ms]

\* One iteration of "for med_id, need in plan": the walk, then the shortfall.
deduct_item(bs, ms, med, need, d) ==
  LET st == walk(candidates(bs, med, d),
                 [bs |-> bs, ms |-> ms, remaining |-> need], med, d)
  IN  [bs |-> st.bs,
       ms |-> IF st.remaining > 0
                THEN Append(st.ms, shortfall_move(d, med, st.remaining))
                ELSE st.ms]

\* Faulty variant: the plan query has no WHERE units_per_day > 0.
fetch_plan_unfiltered == v_daily_units

\* SELECT medicine_id, units_per_day FROM v_daily_units WHERE units_per_day > 0
fetch_plan == SelectSeq(v_daily_units, LAMBDA r : r.units_per_day > 0)

\* ----------------------------------------------------------------- main
\* batch_no of the batches of the initial ledger: text without quotes, unique
\* within a medicine ("a", "aa", ... in batch_id order).
InitialLabel(b) == [i \in 1..(((b - 1) \div NumMeds) + 1) |-> "a"]

\* The dashboard has run no batch query yet; no adjustment is half applied.
NoRead == <<>>
NoAdj  == [batch_id |-> NULL, diff |-> 0]

Terminal == {"Committed", "Skipped", "Failed"}

Init ==
  /\ batches \in [BatchIds -> UNION {BatchRows(b) : b \in BatchIds}]
  /\ \A b \in BatchIds : batches[b] \in BatchRows(b)
  /\ stock_moves = <<>>
  /\ daily_dosage \in DosageTables
  /\ pc = "Idle"
  /\ run_date = 1
  /\ force = FALSE
  /\ tx_batches = batches
  /\ tx_moves = <<>>
  /\ plan = <<>>
  /\ runs = 0
  /\ stock0 = [b \in BatchIds |-> batches[b].stock_units]
  /\ pre = [batches |-> batches, stock_moves |-> <<>>]
  /\ prev = [date |-> 1, pc |-> "Idle"]
  /\ rolled_back = FALSE
  /\ out = [exit |-> 0, lines |-> <<>>]
  /\ pc2 = "Idle"
  /\ run_date2 = 1
  /\ force2 = FALSE
  /\ tx2_batches = batches
  /\ tx2_moves = <<>>
  /\ plan2 = <<>>
  /\ id_to_stock = NoRead
  /\ adj = NoAdj
  /\ rcv = <<>>
  /\ batch_no = [b \in BatchIds |-> InitialLabel(b)]
  /\ receipts = 0
  /\ workbook = [b \in BatchIds |-> batches[b]]

\* Faulty variant: the guard does not look at --force.
StartIgnoringForce(d, f) ==
  /\ pc \in {"Idle", "Committed", "Skipped"}
  /\ runs < MaxRuns
  /\ runs' = runs + 1
  /\ run_date' = d
  /\ force' = f
  /\ prev' = [date |-> run_date, pc |-> pc]
  /\ rolled_back' = FALSE
  /\ pre' = [batches |-> batches, stock_moves |-> stock_moves]
  /\ tx_batches' = batches
  /\ tx_moves' = stock_moves
  /\ plan' = <<>>
  /\ pc' = IF already_ran_for(stock_moves, d) THEN "Skipped" ELSE "Reclaiming"
  /\ out' = [exit |-> 0,
             lines |-> IF already_ran_for(stock_moves, d) THEN <<"[SKIP]">> ELSE <<>>]
  /\ UNCHANGED <<batches, stock_moves, daily_dosage, stock0, job2, dash, workbook>>

\* Faulty variant: the [SKIP] branch prints its line but does not return.
StartWithoutReturn(d, f) ==
  /\ pc \in {"Idle", "Committed", "Skipped"}
  /\ runs < MaxRuns
  /\ runs' = runs + 1
  /\ run_date' = d
  /\ force' = f
  /\ prev' = [date |-> run_date, pc |-> pc]
  /\ rolled_back' = FALSE
  /\ pre' = [batches |-> batches, stock_moves |-> stock_moves]
  /\ tx_batches' = batches
  /\ tx_moves' = stock_moves
  /\ plan' = <<>>
  /\ pc' = "Reclaiming"
  /\ out' = [exit |-> 0,
             lines |-> IF already_ran_for(stock_moves, d) /\ ~f
                         THEN <<"[SKIP]">> ELSE <<>>]
  /\ UNCHANGED <<batches, stock_moves, daily_dosage, stock0, job2, dash, workbook>>

\* main() up to the guard: parse the arguments, connect, test already_ran_for.
\* A failed invocation is the last one explored: it leaves the ledger of an
\* earlier state, from which the following invocations are explored already.
Start(d, f) ==
  /\ pc \in {"Idle", "Committed", "Skipped"}
  /\ runs < MaxRuns
  /\ runs' = runs + 1
  /\ run_date' = d
  /\ force' = f
  /\ prev' = [date |-> run_date, pc |-> pc]
  /\ rolled_back' = FALSE
  /\ pre' = [batches |-> batches, stock_moves |-> stock_moves]
  /\ tx_batches' = batches
  /\ tx_moves' = stock_moves
  /\ plan' = <<>>
  /\ pc' = IF already_ran_for(stock_moves, d) /\ ~f THEN "Skipped"
           ELSE "Reclaiming"
  /\ out' = [exit |-> 0,
             lines |-> IF already_ran_for(stock_moves, d) /\ ~f
                         THEN <<"[SKIP]">> ELSE <<>>]
  /\ UNCHANGED <<batches, stock_moves, daily_dosage, stock0, job2, dash, workbook>>

\* scrap_expired(conn, run_date), then the plan query of fefo_deduct.  The
\* first statement opens the connection's transaction on the durable ledger;
\* the UPDATE takes SQLite's write lock, which it gets only while no other
\* connection holds it (otherwise the statement waits, or Fail is taken).
ScrapExpired ==
  /\ pc = "Reclaiming"
  /\ pc2 # "Allocating"
  /\ \E o \in Orderings(to_scrap(batches, run_date)) :
       /\ tx_batches' = [b \in DOMAIN batches |->
                           IF b \in to_scrap(batches, run_date)
                             THEN [batches[b] EXCEPT !.stock_units = 0]
                             ELSE batches[b]]
       /\ tx_moves' = stock_moves \o
                        [i \in DOMAIN o |-> expired_move(batches, o[i], run_date)]
  /\ plan' = fetch_plan
  /\ out' = [out EXCEPT !.lines = IF fetch_plan = <<>> THEN <<"[INFO]">> ELSE <<>>]
  /\ pc' = "Allocating"
  /\ UNCHANGED <<batches, stock_moves, daily_dosage, run_date, force, runs,
                 stock0, pre, prev, rolled_back, job2, dash, workbook>>

\* Faulty variant: the plan loop stops at the first item that ends in a shortfall.
FefoDeductItemStopOnShortfall ==
  /\ pc = "Allocating"
  /\ plan # <<>>
  /\ Head(plan).medicine_id \in medicines
  /\ LET r == deduct_item(tx_batches, tx_moves, Head(plan).medicine_id,
                          Head(plan).units_per_day, run_date)
     IN  /\ tx_batches' = r.bs
         /\ tx_moves' = r.ms
         /\ plan' = IF r.ms # <<>> /\ r.ms[Len(r.ms)].reason = "shortfall"
                      THEN <<>> ELSE Tail(plan)
  /\ UNCHANGED <<batches, stock_moves, daily_dosage, pc, run_date, force,
                 runs, stock0, pre, prev, rolled_back, out, job2, dash, workbook>>

\* One iteration of the plan loop of fefo_deduct.
FefoDeductItem ==
  /\ pc = "Allocating"
  /\ plan # <<>>
  /\ Head(plan).medicine_id \in medicines
  /\ LET r == deduct_item(tx_batches, tx_moves, Head(plan).medicine_id,
                          Head(plan).units_per_day, run_date)
     IN  /\ tx_batches' = r.bs
         /\ tx_moves' = r.ms
  /\ plan' = Tail(plan)
  /\ UNCHANGED <<batches, stock_moves, daily_dosage, pc, run_date, force,
                 runs, stock0, pre, prev, rolled_back, out, job2, dash, workbook>>

\* conn.commit(): the connection's changes become the durable ledger.
Commit ==
  /\ pc = "Allocating"
  /\ plan = <<>>
  /\ batches' = tx_batches
  /\ stock_moves' = tx_moves
  /\ pc' = "Committed"
  /\ out' = [out EXCEPT !.lines = Append(@, "[OK]")]
  /\ UNCHANGED <<daily_dosage, run_date, force, tx_batches, tx_moves, plan,
                 runs, stock0, pre, prev, rolled_back, job2, dash, workbook>>

\* Faulty variant: every statement is committed as it runs, nothing is rolled back.
FailWithoutRollback ==
  /\ pc \in {"Reclaiming", "Allocating"}
  /\ batches' = tx_batches
  /\ stock_moves' = tx_moves
  /\ plan' = <<>>
  /\ rolled_back' = (tx_moves # stock_moves \/ tx_batches # batches)
  /\ pc' = "Failed"
  /\ out' = [exit |-> 1, lines |-> Append(out.lines, "Traceback")]
  /\ UNCHANGED <<tx_batches, tx_moves, daily_dosage, run_date, force, runs,
                 stock0, pre, prev, job2, dash, workbook>>

\* A data-access error inside the with block: sqlite3 raises, the connection
\* context manager rolls the open transaction back and main() ends.
Fail ==
  /\ pc \in {"Reclaiming", "Allocating"}
  /\ tx_batches' = batches
  /\ tx_moves' = stock_moves
  /\ plan' = <<>>
  /\ rolled_back' = (tx_moves # stock_moves \/ tx_batches # batches)
  /\ pc' = "Failed"
  /\ out' = [exit |-> 1, lines |-> Append(out.lines, "Traceback")]
  /\ UNCHANGED <<batches, stock_moves, daily_dosage, run_date, force, runs,
                 stock0, pre, prev, job2, dash, workbook>>

\* PRAGMA foreign_keys = ON: the INSERT INTO stock_moves of a plan item whose
\* medicine_id is not in medicines raises sqlite3.IntegrityError; nothing in
\* fefo_deduct or main() catches it, so the transaction is rolled back.
ForeignKeyError ==
  /\ pc = "Allocating"
  /\ plan # <<>>
  /\ Head(plan).medicine_id \notin medicines
  /\ deduct_item(tx_batches, tx_moves, Head(plan).medicine_id,
                 Head(plan).units_per_day, run_date).ms # tx_moves
  /\ tx_batches' = batches
  /\ tx_moves' = stock_moves
  /\ plan' = <<>>
  /\ rolled_back' = (tx_moves # stock_moves \/ tx_batches # batches)
  /\ pc' = "Failed"
  /\ out' = [exit |-> 1, lines |-> Append(out.lines, "Traceback")]
  /\ UNCHANGED <<batches, stock_moves, daily_dosage, run_date, force, runs,
                 stock0, pre, prev, job2, dash, workbook>>

Next ==
  \/ \E d \in Dates, f \in BOOLEAN : Start(d, f)
  \/ ScrapExpired
  \/ FefoDeductItem
  \/ Commit
  \/ Fail

Spec == Init /\ [][Next]_vars

\* ------------------------------------------- two overlapping invocations
\* The dashboard's "Run FEFO now" starts apply_daily_dosage.py as a
\* subprocess while an invocation from the command line may be under way.
\* Each has its own connection.  The guard is a SELECT outside any
\* transaction; SQLite lets it read the committed ledger at any time.
main1 == <<pc, run_date, force, tx_batches, tx_moves, plan, runs, pre, prev,
           rolled_back, out>>

Start2(d, f) ==
  /\ pc2 = "Idle"
  /\ run_date2' = d
  /\ force2' = f
  /\ tx2_batches' = batches
  /\ tx2_moves' = stock_moves
  /\ plan2' = <<>>
  /\ pc2' = IF already_ran_for(stock_moves, d) /\ ~f THEN "Skipped"
            ELSE "Reclaiming"
  /\ id_to_stock' = IF already_ran_for(stock_moves, d) /\ ~f
                      THEN NoRead ELSE id_to_stock
  /\ UNCHANGED <<batches, stock_moves, daily_dosage, stock0, main1, adj, recv,
                 workbook>>

\* Faulty variant: the second connection writes although the first holds
\* the write lock (no transaction isolation between the connections).
ScrapExpired2Unlocked ==
  /\ pc2 = "Reclaiming"
  /\ \E o \in Orderings(to_scrap(batches, run_date2)) :
       /\ tx2_batches' = [b \in DOMAIN batches |->
                            IF b \in to_scrap(batches, run_date2)
                              THEN [batches[b] EXCEPT !.stock_units = 0]
                              ELSE batches[b]]
       /\ tx2_moves' = stock_moves \o
                         [i \in DOMAIN o |-> expired_move(batches, o[i], run_date2)]
  /\ plan2' = fetch_plan
  /\ pc2' = "Allocating"
  /\ UNCHANGED <<batches, stock_moves, daily_dosage, stock0, main1, run_date2,
                 force2, dash, workbook>>

\* scrap_expired and the plan query in the second invocation.  Its UPDATE
\* gets the write lock only while the first invocation has no open write
\* transaction; otherwise sqlite3 raises "database is locked" (Fail2).
ScrapExpired2 ==
  /\ pc2 = "Reclaiming"
  /\ pc # "Allocating"
  /\ \E o \in Orderings(to_scrap(batches, run_date2)) :
       /\ tx2_batches' = [b \in DOMAIN batches |->
                            IF b \in to_scrap(batches, run_date2)
                              THEN [batches[b] EXCEPT !.stock_units = 0]
                              ELSE batches[b]]
       /\ tx2_moves' = stock_moves \o
                         [i \in DOMAIN o |-> expired_move(batches, o[i], run_date2)]
  /\ plan2' = fetch_plan
  /\ pc2' = "Allocating"
  /\ UNCHANGED <<batches, stock_moves, daily_dosage, stock0, main1, run_date2,
                 force2, dash, workbook>>

FefoDeductItem2 ==
  /\ pc2 = "Allocating"
  /\ plan2 # <<>>
  /\ Head(plan2).medicine_id \in medicines
  /\ LET r == deduct_item(tx2_batches, tx2_moves, Head(plan2).medicine_id,
                          Head(plan2).units_per_day, run_date2)
     IN  /\ tx2_batches' = r.bs
         /\ tx2_moves' = r.ms
  /\ plan2' = Tail(plan2)
  /\ UNCHANGED <<batches, stock_moves, daily_dosage, stock0, main1, pc2,
                 run_date2, force2, dash, workbook>>

\* conn.commit() of the second invocation; returncode 0 makes the dashboard
\* clear its query cache.
Commit2 ==
  /\ pc2 = "Allocating"
  /\ plan2 = <<>>
  /\ batches' = tx2_batches
  /\ stock_moves' = tx2_moves
  /\ pc2' = "Committed"
  /\ id_to_stock' = NoRead
  /\ UNCHANGED <<daily_dosage, stock0, main1, run_date2, force2, tx2_batches,
                 tx2_moves, plan2, adj, recv, workbook>>

\* An sqlite3 error in the second invocation, "database is locked" included.
Fail2 ==
  /\ pc2 \in {"Reclaiming", "Allocating"}
  /\ tx2_batches' = batches
  /\ tx2_moves' = stock_moves
  /\ plan2' = <<>>
  /\ pc2' = "Failed"
  /\ UNCHANGED <<batches, stock_moves, daily_dosage, stock0, main1, run_date2,
                 force2, dash, workbook>>

\* A freshly loaded ledger in which every batch holds stock and every dosage
\* row prescribes something; each of the two invocations runs once.
InitOverlap ==
  /\ batches \in [BatchIds -> UNION {BatchRows(b) : b \in BatchIds}]
  /\ \A b \in BatchIds : batches[b] \in BatchRows(b) /\ batches[b].stock_units > 0
  /\ stock_moves = <<>>
  /\ daily_dosage \in {t \in DosageTables : \A i \in DOMAIN t : units_per_day(t[i]) > 0}
  /\ pc = "Idle"
  /\ run_date = 1
  /\ force = FALSE
  /\ tx_batches = batches
  /\ tx_moves = <<>>
  /\ plan = <<>>
  /\ runs = MaxRuns - 1
  /\ stock0 = [b \in BatchIds |-> batches[b].stock_units]
  /\ pre = [batches |-> batches, stock_moves |-> <<>>]
  /\ prev = [date |-> 1, pc |-> "Idle"]
  /\ rolled_back = FALSE
  /\ out = [exit |-> 0, lines |-> <<>>]
  /\ pc2 = "Idle"
  /\ run_date2 = 1
  /\ force2 = FALSE
  /\ tx2_batches = batches
  /\ tx2_moves = <<>>
  /\ plan2 = <<>>
  /\ id_to_stock = NoRead
  /\ adj = NoAdj
  /\ rcv = <<>>
  /\ batch_no = [b \in BatchIds |-> InitialLabel(b)]
  /\ receipts = 0
  /\ workbook = [b \in BatchIds |-> batches[b]]

NextOverlap ==
  \/ \E d \in Dates, f \in BOOLEAN : Start(d, f)
  \/ ScrapExpired
  \/ FefoDeductItem
  \/ Commit
  \/ Fail
  \/ \E d \in Dates, f \in BOOLEAN : Start2(d, f)
  \/ ScrapExpired2
  \/ FefoDeductItem2
  \/ Commit2
  \/ Fail2

SpecOverlap == InitOverlap /\ [][NextOverlap]_vars

\* ------------------------------------------------- dashboard and ingestion
\* datetime('now'), the DEFAULT of stock_moves.ts: any date, here at midnight.
Clock == [date : Dates, time : {0}]

\* q(): the batch query of the Adjust panel runs when st.cache_data holds no
\* result for it (first render, after the 30 s ttl, after a cache clear);
\* otherwise the panel keeps showing, and using, the cached rows.
DashRead ==
  /\ id_to_stock # [b \in DOMAIN batches |-> batches[b].stock_units]
  /\ id_to_stock' = [b \in DOMAIN batches |-> batches[b].stock_units]
  /\ UNCHANGED <<batches, stock_moves, daily_dosage, stock0, main1, job2, adj,
                 recv, workbook>>

\* "Apply adjustment", first exec_sql: old_qty is what the panel's query
\* returned, the UPDATE sets the batch and is committed by its own connection,
\* and exec_sql clears the cache.  The statement needs the write lock.
AdjustUpdate(sel, new_qty) ==
  /\ adj = NoAdj
  /\ sel \in DOMAIN id_to_stock
  /\ pc # "Allocating"
  /\ Cardinality({i \in DOMAIN stock_moves :
                    stock_moves[i].reason = "adjustment"}) < MaxAdjusts
  /\ batches' = IF sel \in DOMAIN batches
                  THEN [batches EXCEPT ![sel].stock_units = new_qty]
                  ELSE batches
  /\ adj' = [batch_id |-> sel, diff |-> new_qty - id_to_stock[sel]]
  /\ id_to_stock' = NoRead
  /\ UNCHANGED <<stock_moves, daily_dosage, stock0, main1, job2, recv, workbook>>

\* INSERT INTO stock_moves ... SELECT medicine_id, batch_id, ?, 'adjustment', ?
\* FROM batches WHERE batch_id = ?
adjustment_move(bs, b, diff, now) ==
  [ts |-> now, medicine_id |-> bs[b].medicine_id, batch_id |-> b,
   qty_change |-> diff, reason |-> "adjustment", note |-> <<>>]

\* "Apply adjustment", second exec_sql: a second connection and transaction.
AdjustLog(now) ==
  /\ adj # NoAdj
  /\ pc # "Allocating"
  /\ stock_moves' = IF adj.batch_id \in DOMAIN batches
                      THEN Append(stock_moves,
                                  adjustment_move(batches, adj.batch_id, adj.diff, now))
                      ELSE stock_moves
  /\ adj' = NoAdj
  /\ id_to_stock' = NoRead
  /\ UNCHANGED <<batches, daily_dosage, stock0, main1, job2, recv, workbook>>

\* Largest batch_id handed out so far (batch_id is AUTOINCREMENT).
MaxBatchId == CHOOSE n \in DOMAIN batches : \A b \in DOMAIN batches : b <= n

\* ingest_excel.main() run again on the workbook the ledger was loaded from.
\* upsert_table deletes every medicine the sheet lists and inserts it again;
\* with foreign keys on, the DELETE cascades to the medicine's batches,
\* dosage row and stock_moves rows.  The batches sheet is then inserted under
\* new batch ids and the dosage sheet under the same keys.  Explored once,
\* on a ledger that still has the batch ids of the first load.
Ingest ==
  /\ pc # "Allocating"
  /\ \A b \in DOMAIN batches : b <= NumBatches
  /\ batches' = [b \in (MaxBatchId + 1)..(MaxBatchId + NumBatches) |->
                   workbook[b - MaxBatchId]]
  /\ stock_moves' = SelectSeq(stock_moves, LAMBDA r : r.medicine_id \notin medicines)
  /\ stock0' = [b \in (MaxBatchId + 1)..(MaxBatchId + NumBatches) |->
                  workbook[b - MaxBatchId].stock_units]
  /\ batch_no' = [b \in (MaxBatchId + 1)..(MaxBatchId + NumBatches) |->
                    InitialLabel(b - MaxBatchId)]
  /\ UNCHANGED <<daily_dosage, main1, job2, id_to_stock, adj, rcv, receipts,
                 workbook>>

\* A freshly loaded ledger in which every batch is full and every dosage row
\* prescribes something; one invocation of the daily run.
InitLedger ==
  /\ batches \in [BatchIds -> UNION {BatchRows(b) : b \in BatchIds}]
  /\ \A b \in BatchIds :
       batches[b] \in BatchRows(b) /\ batches[b].stock_units = MaxStock
  /\ stock_moves = <<>>
  /\ daily_dosage \in {t \in DosageTables : \A i \in DOMAIN t : units_per_day(t[i]) > 0}
  /\ pc = "Idle"
  /\ run_date = 1
  /\ force = FALSE
  /\ tx_batches = batches
  /\ tx_moves = <<>>
  /\ plan = <<>>
  /\ runs = MaxRuns - 1
  /\ stock0 = [b \in BatchIds |-> batches[b].stock_units]
  /\ pre = [batches |-> batches, stock_moves |-> <<>>]
  /\ prev = [date |-> 1, pc |-> "Idle"]
  /\ rolled_back = FALSE
  /\ out = [exit |-> 0, lines |-> <<>>]
  /\ pc2 = "Idle"
  /\ run_date2 = 1
  /\ force2 = FALSE
  /\ tx2_batches = batches
  /\ tx2_moves = <<>>
  /\ plan2 = <<>>
  /\ id_to_stock = NoRead
  /\ adj = NoAdj
  /\ rcv = <<>>
  /\ batch_no = [b \in BatchIds |-> InitialLabel(b)]
  /\ receipts = 0
  /\ workbook = [b \in BatchIds |-> batches[b]]

\* ---------------------------------------------------------- Receive stock
\* What may be typed into the batch_no field: the label of an existing batch,
\* a new label, and a new label that ends in an apostrophe.
ReceiveLabels == {<<"a">>, <<"b">>, <<"b", "'">>}

\* The log statement is built with an f-string: '{batch.strip()}'.  SQLite
\* reads the text after the opening quote as a string literal: two quotes in
\* a row stand for one quote, a single quote ends the literal.  ok says that
\* the literal ends exactly at the quote the f-string closes it with, value
\* is the text SQLite compares batch_no with.
RECURSIVE read_literal(_, _, _)
read_literal(t, i, acc) ==
  IF i > Len(t) THEN [ok |-> TRUE, value |-> acc]
  ELSE IF t[i] # "'" THEN read_literal(t, i + 1, Append(acc, t[i]))
  ELSE IF i = Len(t) THEN [ok |-> FALSE, value |-> Append(acc, "'")]
  ELSE IF t[i + 1] = "'" THEN read_literal(t, i + 2, Append(acc, "'"))
  ELSE [ok |-> FALSE, value |-> acc]

\* The batch of medicine med that carries the label, if there is one
\* (UNIQUE (medicine_id, batch_no)).
batch_with(bs, labels, med, label) ==
  {b \in DOMAIN bs : bs[b].medicine_id = med /\ labels[b] = label}

\* "Receive", first statement (exec_sql): INSERT INTO batches ... ON CONFLICT
\* (medicine_id, batch_no) DO UPDATE SET stock_units = stock_units +
\* excluded.stock_units, expiry_date = COALESCE(excluded.expiry_date,
\* expiry_date), committed by its own connection.  A medicine_id that
\* medicines does not hold fails the foreign key and nothing is written.  A
\* new batch starts its history at stock 0.
ReceiveUpsert(med, label, qty, exp) ==
  /\ receipts < MaxReceipts
  /\ pc # "Allocating"
  /\ med \in medicines
  /\ receipts' = receipts + 1
  /\ LET hit == batch_with(batches, batch_no, med, label)
         new == MaxBatchId + 1
     IN  IF hit # {}
           THEN LET b == CHOOSE x \in hit : TRUE
                IN  /\ batches' = [batches EXCEPT
                                     ![b].stock_units = @ + qty,
                                     ![b].expiry_date = IF exp # NULL THEN exp ELSE @]
                    /\ UNCHANGED <<batch_no, stock0>>
           ELSE /\ batches' = [b \in DOMAIN batches \cup {new} |->
                                 IF b = new
                                   THEN [medicine_id |-> med, stock_units |-> qty,
                                         expiry_date |-> exp]
                                   ELSE batches[b]]
                /\ batch_no' = [b \in DOMAIN batches \cup {new} |->
                                  IF b = new THEN label ELSE batch_no[b]]
                /\ stock0' = [b \in DOMAIN batches \cup {new} |->
                                IF b = new THEN 0 ELSE stock0[b]]
  /\ rcv' = Append(rcv, [medicine_id |-> med, batch_no |-> label, qty |-> qty])
  /\ id_to_stock' = NoRead
  /\ UNCHANGED <<stock_moves, daily_dosage, main1, job2, adj, workbook>>

\* SELECT '{med}', batch_id, {qty}, 'receipt', 'Streamlit receive' FROM batches
receipt_move(med, b, qty, now) ==
  [ts |-> now, medicine_id |-> med, batch_id |-> b, qty_change |-> qty,
   reason |-> "receipt", note |-> <<>>]

\* "Receive", second statement (exec_script), in a connection of its own:
\* INSERT INTO stock_moves ... FROM batches WHERE medicine_id='{med}' AND
\* batch_no='{batch}'.  When the text is not a statement sqlite3 raises, the
\* except branch shows the error, and the receipt is over without a movement.
ReceiveLog(k, now) ==
  /\ k \in DOMAIN rcv
  /\ pc # "Allocating"
  /\ LET r   == rcv[k]
         lit == read_literal(r.batch_no, 1, <<>>)
         hit == batch_with(batches, batch_no, r.medicine_id, lit.value)
     IN  stock_moves' =
           IF lit.ok /\ hit # {}
             THEN Append(stock_moves,
                         receipt_move(r.medicine_id, CHOOSE b \in hit : TRUE, r.qty, now))
             ELSE stock_moves
  /\ rcv' = [j \in 1..(Len(rcv) - 1) |-> IF j < k THEN rcv[j] ELSE rcv[j + 1]]
  /\ id_to_stock' = NoRead
  /\ UNCHANGED <<batches, daily_dosage, stock0, main1, job2, adj, batch_no,
                 receipts, workbook>>

\* The daily run beside dashboard sessions that receive stock for the
\* medicine of the first batch.  The expiry field of the form is left empty
\* and the receipts are logged on the last day.
NextReceive ==
  \/ \E d \in Dates, f \in BOOLEAN : Start(d, f)
  \/ ScrapExpired
  \/ FefoDeductItem
  \/ Commit
  \/ Fail
  \/ \E label \in ReceiveLabels, qty \in 0..MaxStock :
        ReceiveUpsert(medicine_of(1), label, qty, NULL)
  \/ \E k \in DOMAIN rcv : ReceiveLog(k, [date |-> MaxDate, time |-> 0])

\* The ledgers of InitLedger in which every medicine has its dosage row, in
\* medicine order, of one slot.
InitReceive ==
  /\ InitLedger
  /\ Len(daily_dosage) = NumMeds
  /\ \A i \in DOMAIN daily_dosage :
       daily_dosage[i].medicine_id = i /\ daily_dosage[i].after_bf = 0

SpecReceive == InitReceive /\ [][NextReceive]_vars

\* The daily run beside a dashboard session that adjusts batches.
NextAdjust ==
  \/ \E d \in Dates, f \in BOOLEAN : Start(d, f)
  \/ ScrapExpired
  \/ FefoDeductItem
  \/ Commit
  \/ Fail
  \/ DashRead
  \/ \E sel \in DOMAIN id_to_stock, new_qty \in 0..MaxStock : AdjustUpdate(sel, new_qty)
  \/ \E now \in Clock : AdjustLog(now)

SpecAdjust == InitLedger /\ [][NextAdjust]_vars

\* The daily run and a second load of the workbook.
NextIngest ==
  \/ \E d \in Dates, f \in BOOLEAN : Start(d, f)
  \/ ScrapExpired
  \/ FefoDeductItem
  \/ Commit
  \/ Fail
  \/ Ingest

SpecIngest == InitLedger /\ [][NextIngest]_vars

\* ------------------------------------- a ledger with an unknown medicine
\* The ledger of Init, one invocation, with a daily_dosage row for OrphanId.
InitOrphan ==
  /\ batches \in [BatchIds -> UNION {BatchRows(b) : b \in BatchIds}]
  /\ \A b \in BatchIds : batches[b] \in BatchRows(b)
  /\ stock_moves = <<>>
  /\ daily_dosage \in OrphanTables
  /\ pc = "Idle"
  /\ run_date = 1
  /\ force = FALSE
  /\ tx_batches = batches
  /\ tx_moves = <<>>
  /\ plan = <<>>
  /\ runs = MaxRuns - 1
  /\ stock0 = [b \in BatchIds |-> batches[b].stock_units]
  /\ pre = [batches |-> batches, stock_moves |-> <<>>]
  /\ prev = [date |-> 1, pc |-> "Idle"]
  /\ rolled_back = FALSE
  /\ out = [exit |-> 0, lines |-> <<>>]
  /\ pc2 = "Idle"
  /\ run_date2 = 1
  /\ force2 = FALSE
  /\ tx2_batches = batches
  /\ tx2_moves = <<>>
  /\ plan2 = <<>>
  /\ id_to_stock = NoRead
  /\ adj = NoAdj
  /\ rcv = <<>>
  /\ batch_no = [b \in BatchIds |-> InitialLabel(b)]
  /\ receipts = 0
  /\ workbook = [b \in BatchIds |-> batches[b]]

\* No data-access error other than the foreign-key one is injected here.
NextOrphan ==
  \/ \E d \in Dates, f \in BOOLEAN : Start(d, f)
  \/ ScrapExpired
  \/ FefoDeductItem
  \/ ForeignKeyError
  \/ Commit

SpecOrphan == InitOrphan /\ [][NextOrphan]_vars

\* ===================================================== claim vocabulary
\* Sum of f[x] over the finite set S.
RECURSIVE SumOver(_, _)
SumOver(S, f) ==
  IF S = {} THEN 0
  ELSE LET x == CHOOSE y \in S : TRUE IN f[x] + SumOver(S \ {x}, f)

\* Signed sum of qty_change over the movements that reference batch b.
MoveSum(ms, b) ==
  SumOver({i \in DOMAIN ms : ms[i].batch_id = b},
          [i \in DOMAIN ms |-> ms[i].qty_change])

\* Ids of the movements the current invocation has appended so far.
RunMoveIds == (Len(pre.stock_moves) + 1)..Len(tx_moves)

RunMovesOf(reason, med) ==
  {i \in RunMoveIds : tx_moves[i].reason = reason /\ tx_moves[i].medicine_id = med}

\* Units the current invocation has taken for medicine med.
Consumed(med) ==
  SumOver(RunMovesOf("daily_dose", med),
          [i \in DOMAIN tx_moves |-> -tx_moves[i].qty_change])

\* Batches of med that held unexpired stock when the invocation started.
EligibleAtStart(med) ==
  {b \in BatchIds : /\ pre.batches[b].medicine_id = med
                    /\ pre.batches[b].stock_units > 0
                    /\ \/ pre.batches[b].expiry_date = NULL
                       \/ pre.batches[b].expiry_date >= run_date}

EligibleStock(med) ==
  SumOver(EligibleAtStart(med), [b \in BatchIds |-> pre.batches[b].stock_units])

\* Batches that were expired, with stock, when the invocation started.
ExpiredAtStart ==
  {b \in BatchIds : /\ pre.batches[b].stock_units > 0
                    /\ pre.batches[b].expiry_date # NULL
                    /\ pre.batches[b].expiry_date < run_date}

\* The FEFO order of the specification: dated before undated, earlier expiry
\* first, equal expiry by ascending batch id.
Earlier(a, b) ==
  LET ea == pre.batches[a].expiry_date
      eb == pre.batches[b].expiry_date
  IN  \/ ea # NULL /\ eb = NULL
      \/ ea # NULL /\ eb # NULL /\ ea < eb
      \/ ea = eb /\ a < b

PlanIds == DOMAIN fetch_plan

\* ================================================================ claims
\* C1: reconciliation invariant.  In every state, for the durable ledger and
\* for the ledger as the running invocation sees it, every batch has
\* stock_units >= 0 and stock_units = the stock it had before the first run
\* plus the signed sum of qty_change over the movements referencing it.
C1_Reconciliation ==
  \A b \in BatchIds :
    /\ batches[b].stock_units >= 0
    /\ batches[b].stock_units = stock0[b] + MoveSum(stock_moves, b)
    /\ tx_batches[b].stock_units >= 0
    /\ tx_batches[b].stock_units = stock0[b] + MoveSum(tx_moves, b)

\* Two committed runs have both written movements for one batch.
C1_Witness ==
  /\ pc = "Committed"
  /\ runs >= 2
  /\ \E b \in BatchIds :
       /\ Cardinality({i \in DOMAIN stock_moves : stock_moves[i].batch_id = b}) >= 2
       /\ batches[b].stock_units < stock0[b]

\* C2: idempotence.  When the previous invocation committed for a date and
\* the current one is for the same date without force, the current one is
\* Skipped and the durable ledger is as the previous one left it.  Stated for
\* ledgers whose plan doses at least one item, once the second invocation
\* has ended.
C2_Idempotence ==
  (/\ runs >= 2 /\ prev.pc = "Committed" /\ prev.date = run_date /\ ~force
   /\ fetch_plan # <<>> /\ pc \in Terminal \ {"Failed"})
    => /\ pc = "Skipped"
       /\ batches = pre.batches
       /\ stock_moves = pre.stock_moves

\* C3: exact consumption.  When a run commits, every plan item whose
\* unexpired stock at the start of the run covers units_per_day has had
\* exactly units_per_day taken by the run's consumption movements.
C3_ExactConsumption ==
  pc = "Committed" =>
    \A i \in PlanIds :
      EligibleStock(fetch_plan[i].medicine_id) >= fetch_plan[i].units_per_day
        => Consumed(fetch_plan[i].medicine_id) = fetch_plan[i].units_per_day

\* A committed run met a requirement of 2 or more out of two batches, one of
\* them only partly drained.
C3_Witness ==
  /\ pc = "Committed"
  /\ \E i \in PlanIds :
       LET m == fetch_plan[i].medicine_id IN
       /\ fetch_plan[i].units_per_day >= 2
       /\ EligibleStock(m) > fetch_plan[i].units_per_day
       /\ Cardinality(RunMovesOf("daily_dose", m)) = 2

\* C4: FEFO order.  Within one run and one item the consumption movements
\* are written in FEFO order (dated before undated, earlier expiry first,
\* ties by batch id), and a batch is drawn from only if every eligible batch
\* earlier in that order is at zero.
C4_FefoOrder ==
  pc \in {"Allocating", "Committed"} =>
    \A i \in RunMoveIds :
      tx_moves[i].reason = "daily_dose" =>
        LET b == tx_moves[i].batch_id
            m == tx_moves[i].medicine_id
        IN  /\ b \in EligibleAtStart(m)
            /\ \A a \in EligibleAtStart(m) :
                 Earlier(a, b) => tx_batches[a].stock_units = 0
            /\ \A j \in RunMoveIds :
                 (j < i /\ tx_moves[j].reason = "daily_dose"
                    /\ tx_moves[j].medicine_id = m)
                   => Earlier(tx_moves[j].batch_id, b)

\* A run drew from a higher batch id before a lower one of the same item,
\* the lower one being undated.
C4_Witness ==
  /\ pc = "Committed"
  /\ \E i, j \in RunMoveIds :
       /\ i < j
       /\ tx_moves[i].reason = "daily_dose" /\ tx_moves[j].reason = "daily_dose"
       /\ tx_moves[i].medicine_id = tx_moves[j].medicine_id
       /\ tx_moves[i].batch_id > tx_moves[j].batch_id
       /\ pre.batches[tx_moves[j].batch_id].expiry_date = NULL

\* C5: atomicity.  While a run is in progress and after it has failed, the
\* durable ledger is exactly the ledger the run started from.
C5_Atomicity ==
  pc \in {"Reclaiming", "Allocating", "Failed"} =>
    /\ batches = pre.batches
    /\ stock_moves = pre.stock_moves

\* A run failed after it had changed batches or written movements.
C5_Witness == pc = "Failed" /\ rolled_back

\* C6: expiry reclamation.  Once reclamation has run, every batch that
\* started the run with stock and a non-null expiry date before the run date
\* is at zero and has exactly one 'expired' movement of the run, whose delta
\* is minus the stock it started with; no other batch gets an 'expired'
\* movement in the run, and a batch with null expiry never has one.
C6_ExpiryReclamation ==
  pc \in {"Allocating", "Committed"} =>
    \A b \in BatchIds :
      LET exp == {i \in RunMoveIds : tx_moves[i].reason = "expired"
                                       /\ tx_moves[i].batch_id = b}
      IN  /\ b \in ExpiredAtStart =>
               /\ tx_batches[b].stock_units = 0
               /\ Cardinality(exp) = 1
               /\ \A i \in exp :
                    tx_moves[i].qty_change = -pre.batches[b].stock_units
          /\ b \notin ExpiredAtStart => exp = {}
          /\ pre.batches[b].expiry_date = NULL =>
               \A i \in DOMAIN tx_moves :
                 tx_moves[i].reason = "expired" => tx_moves[i].batch_id # b

\* Reclamation zeroed two expired batches while an undated batch kept its stock.
C6_Witness ==
  /\ pc = "Allocating"
  /\ plan = fetch_plan
  /\ Cardinality(ExpiredAtStart) >= 2
  /\ \E b \in BatchIds : /\ pre.batches[b].expiry_date = NULL
                         /\ tx_batches[b].stock_units > 0

\* C7: reclamation precedes allocation.  No consumption movement references
\* a batch whose expiry date is before the date of the movement, and during
\* allocation every batch that is expired as of the run date is already at
\* zero.
C7_ReclaimBeforeAllocate ==
  /\ \A i \in DOMAIN tx_moves :
       tx_moves[i].reason = "daily_dose" =>
         LET e == tx_batches[tx_moves[i].batch_id].expiry_date
         IN  e = NULL \/ e >= sql_date(tx_moves[i].ts)
  /\ pc = "Allocating" =>
       \A b \in BatchIds :
         (tx_batches[b].expiry_date # NULL /\ tx_batches[b].expiry_date < run_date)
           => tx_batches[b].stock_units = 0

\* An item had expired stock reclaimed and was then dosed, in one run, from
\* another of its batches.
C7_Witness ==
  /\ pc = "Committed"
  /\ \E b \in ExpiredAtStart :
       RunMovesOf("daily_dose", pre.batches[b].medicine_id) # {}

\* C8: shortfall record.  When a run commits, every plan item has one
\* 'shortfall' movement of the run if its unexpired stock at the start of
\* the run was less than units_per_day and none otherwise; the movement has
\* delta 0, a null batch reference and records units_per_day minus the
\* units the run consumed for the item, which are all its unexpired stock.
C8_ShortfallRecord ==
  pc = "Committed" =>
    \A i \in PlanIds :
      LET m    == fetch_plan[i].medicine_id
          need == fetch_plan[i].units_per_day
          sf   == RunMovesOf("shortfall", m)
      IN  /\ Cardinality(sf) = IF EligibleStock(m) < need THEN 1 ELSE 0
          /\ \A k \in sf :
               /\ tx_moves[k].qty_change = 0
               /\ tx_moves[k].batch_id = NULL
               /\ tx_moves[k].note[1] = need - Consumed(m)
               /\ Consumed(m) = EligibleStock(m)

\* A committed run consumed part of a requirement and recorded the rest.
C8_Witness ==
  /\ pc = "Committed"
  /\ \E i \in PlanIds :
       /\ RunMovesOf("shortfall", fetch_plan[i].medicine_id) # {}
       /\ Consumed(fetch_plan[i].medicine_id) > 0

\* C9: shortfall isolation.  When a run that recorded a shortfall commits,
\* every plan item has been attempted: the run took for it the smaller of
\* units_per_day and its own unexpired stock, whatever happened to the other
\* items, and recorded a shortfall for it if that is less than units_per_day.
C9_ShortfallIsolation ==
  (pc = "Committed" /\ \E k \in RunMoveIds : tx_moves[k].reason = "shortfall") =>
    \A i \in PlanIds :
      LET m    == fetch_plan[i].medicine_id
          need == fetch_plan[i].units_per_day
      IN  /\ Consumed(m) = Min(need, EligibleStock(m))
          /\ Consumed(m) = need \/ RunMovesOf("shortfall", m) # {}

\* The first plan item ended in a shortfall and the second was fully dosed.
C9_Witness ==
  /\ pc = "Committed"
  /\ Len(fetch_plan) = 2
  /\ RunMovesOf("shortfall", fetch_plan[1].medicine_id) # {}
  /\ Consumed(fetch_plan[2].medicine_id) = fetch_plan[2].units_per_day

\* C10: forced re-run.  An invocation with force is never Skipped; when it
\* commits for a date that was already applied, the movements of the earlier
\* runs are all still there, unchanged and in place, and the run has appended
\* a consumption or shortfall movement for every plan item.
C10_ForcedRerun ==
  /\ pc = "Skipped" => ~force
  /\ (pc = "Committed" /\ force /\ already_ran_for(pre.stock_moves, run_date)) =>
       /\ Len(stock_moves) > Len(pre.stock_moves)
       /\ SubSeq(stock_moves, 1, Len(pre.stock_moves)) = pre.stock_moves
       /\ \A i \in PlanIds :
            \/ RunMovesOf("daily_dose", fetch_plan[i].medicine_id) # {}
            \/ RunMovesOf("shortfall", fetch_plan[i].medicine_id) # {}

\* A forced run for an applied date consumed again from the same batch.
C10_Witness ==
  /\ pc = "Committed" /\ force /\ already_ran_for(pre.stock_moves, run_date)
  /\ \E i \in RunMoveIds, j \in DOMAIN pre.stock_moves :
       /\ tx_moves[i].reason = "daily_dose" /\ stock_moves[j].reason = "daily_dose"
       /\ tx_moves[i].batch_id = stock_moves[j].batch_id
       /\ sql_date(stock_moves[j].ts) = run_date

\* Medicines without a daily_dosage row, or with one whose slots sum to zero.
ZeroDose ==
  {m \in MedIds : \A i \in DOMAIN v_daily_units :
                    v_daily_units[i].medicine_id = m =>
                      v_daily_units[i].units_per_day <= 0}

\* C14: zero-dose exclusion.  The rows the plan loop works through all have
\* units_per_day > 0; for a medicine with no dosage row or a zero one the run
\* writes no consumption and no shortfall movement, whatever its stock, and
\* leaves its batches as reclamation left them.
C14_ZeroDoseExclusion ==
  /\ \A i \in DOMAIN plan : plan[i].units_per_day > 0
  /\ pc \in {"Allocating", "Committed"} =>
       \A m \in ZeroDose :
         /\ RunMovesOf("daily_dose", m) = {}
         /\ RunMovesOf("shortfall", m) = {}
         /\ \A b \in BatchIds :
              pre.batches[b].medicine_id = m =>
                tx_batches[b].stock_units =
                  IF b \in ExpiredAtStart THEN 0 ELSE pre.batches[b].stock_units

\* A committed run dosed one medicine while another, with a dosage row of
\* zero units and no stock at all, got no movement.
C14_Witness ==
  /\ pc = "Committed"
  /\ \E i \in DOMAIN v_daily_units :
       /\ v_daily_units[i].units_per_day = 0
       /\ v_daily_units[i].medicine_id \in ZeroDose
       /\ \A b \in BatchIds :
            pre.batches[b].medicine_id = v_daily_units[i].medicine_id =>
              pre.batches[b].stock_units = 0
  /\ \E j \in PlanIds : Consumed(fetch_plan[j].medicine_id) > 0

\* Batches that held stock and expire exactly on the run date.
OnBoundary ==
  {b \in BatchIds : /\ pre.batches[b].stock_units > 0
                    /\ pre.batches[b].expiry_date = run_date}

\* C15: expiry boundary.  A batch with stock whose expiry date equals the run
\* date gets no expired movement and keeps its stock through reclamation; the
\* only movements the run writes for it are consumptions, and when its
\* medicine is in the plan the committed run either consumed from it or met
\* the whole requirement from other batches.
C15_ExpiryBoundary ==
  pc \in {"Allocating", "Committed"} =>
    \A b \in OnBoundary :
      LET m == pre.batches[b].medicine_id
          dose == {i \in RunMovesOf("daily_dose", m) : tx_moves[i].batch_id = b}
      IN  /\ \A i \in RunMoveIds :
               tx_moves[i].batch_id = b => tx_moves[i].reason = "daily_dose"
          /\ plan = fetch_plan => tx_batches[b].stock_units = pre.batches[b].stock_units
          /\ pc = "Committed" =>
               \A i \in PlanIds :
                 fetch_plan[i].medicine_id = m =>
                   dose # {} \/ Consumed(m) = fetch_plan[i].units_per_day

\* A committed run consumed from a batch that expires on the run date while
\* it scrapped another batch that expired before it.
C15_Witness ==
  /\ pc = "Committed"
  /\ ExpiredAtStart # {}
  /\ \E b \in OnBoundary, i \in RunMoveIds :
       tx_moves[i].batch_id = b /\ tx_moves[i].reason = "daily_dose"

\* C16: guard definition.  Once an invocation without force has evaluated the
\* guard, it is Skipped exactly when the ledger it started from holds at least
\* one movement with reason daily_dose whose timestamp falls on the run date;
\* movements with other reasons, and movements of other dates, do not count.
C16_GuardDefinition ==
  (runs >= 1 /\ ~force) =>
    (pc = "Skipped" <=>
       \E i \in DOMAIN pre.stock_moves :
          /\ pre.stock_moves[i].reason = "daily_dose"
          /\ pre.stock_moves[i].ts.date = run_date)

\* An invocation without force went ahead although the ledger held an expired
\* and a shortfall movement, both stamped with its run date.
C16_Witness ==
  /\ runs >= 2 /\ ~force /\ pc = "Reclaiming"
  /\ \E i, j \in DOMAIN pre.stock_moves :
       /\ pre.stock_moves[i].reason = "expired"
       /\ pre.stock_moves[j].reason = "shortfall"
       /\ pre.stock_moves[i].ts = log_ts(run_date)
       /\ pre.stock_moves[j].ts = log_ts(run_date)

\* The invocation is refused by the guard.
Refused == runs >= 1 /\ ~force /\ already_ran_for(pre.stock_moves, run_date)

\* C17: guard refusal frame.  An invocation for a date that is already
\* applied, without force, is Skipped, and the ledger, both the durable one
\* and the one its connection sees, is exactly the ledger it started from: no
\* reclamation, no allocation, no movement.
C17_GuardRefusalFrame ==
  Refused =>
    /\ pc = "Skipped"
    /\ batches = pre.batches
    /\ stock_moves = pre.stock_moves
    /\ tx_batches = pre.batches
    /\ tx_moves = pre.stock_moves

\* A refused invocation whose plan could have consumed stock.
C17_Witness ==
  /\ Refused
  /\ pc = "Skipped"
  /\ \E i \in PlanIds : eligible(batches, fetch_plan[i].medicine_id, run_date) # {}

\* The committed invocation recorded at least one shortfall.
RunHadShortfall == \E k \in RunMoveIds : tx_moves[k].reason = "shortfall"

\* C20: distinguishable outcome.  A Skipped invocation exits with status 0
\* and says it was already applied, a Failed one exits with a non-zero
\* status, and a Committed one exits with status 0, says it completed, and
\* its output reports shortfalls exactly when the run recorded some.
C20_DistinguishableOutcome ==
  /\ pc = "Skipped" => out.exit = 0 /\ out.lines = <<"[SKIP]">>
  /\ pc = "Failed" => out.exit # 0
  /\ pc = "Committed" =>
       /\ out.exit = 0
       /\ out.lines[Len(out.lines)] = "[OK]"
       /\ RunHadShortfall <=>
            \E k \in DOMAIN out.lines : out.lines[k] \notin {"[OK]", "[INFO]"}

\* C19: unknown-item dosage entry.  When the plan holds an entry for a
\* medicine that table medicines does not know, the run does not fail: it
\* commits, writes no movement for the unknown medicine, and every other plan
\* item gets its normal outcome (the smaller of its requirement and its
\* unexpired stock is consumed).
C19_UnknownItemSkipped ==
  (\E i \in PlanIds : fetch_plan[i].medicine_id \notin medicines) =>
    /\ pc # "Failed"
    /\ pc = "Committed" =>
         \A i \in PlanIds :
           LET m == fetch_plan[i].medicine_id
           IN  IF m \in medicines
                 THEN Consumed(m) = Min(fetch_plan[i].units_per_day, EligibleStock(m))
                 ELSE \A k \in RunMoveIds : tx_moves[k].medicine_id # m

\* C13: runs are serialized.  When two invocations overlap, at most one of
\* them is inside its reclamation-and-allocation transaction at a time; the
\* durable ledger and each connection's view of it keep the reconciliation
\* invariant; and once both have committed, the durable ledger is the view of
\* the one that committed last, which extends the other's view: nothing one
\* run wrote is overwritten or lost.
C13_RunsSerialized ==
  /\ ~(pc = "Allocating" /\ pc2 = "Allocating")
  /\ \A b \in BatchIds :
       /\ batches[b].stock_units >= 0
       /\ batches[b].stock_units = stock0[b] + MoveSum(stock_moves, b)
       /\ tx_batches[b].stock_units = stock0[b] + MoveSum(tx_moves, b)
       /\ tx2_batches[b].stock_units = stock0[b] + MoveSum(tx2_moves, b)
  /\ (pc = "Committed" /\ pc2 = "Committed") =>
       \/ /\ stock_moves = tx_moves
          /\ SubSeq(tx_moves, 1, Len(tx2_moves)) = tx2_moves
       \/ /\ stock_moves = tx2_moves
          /\ SubSeq(tx2_moves, 1, Len(tx_moves)) = tx_moves

\* Both invocations ran for the same date without force and both committed a
\* consumption from the same batch: the second passed the guard before the
\* first committed, then waited for the lock.
C13_Witness ==
  /\ pc = "Committed" /\ pc2 = "Committed"
  /\ ~force /\ ~force2 /\ run_date = run_date2
  /\ \E i, j \in DOMAIN stock_moves :
       /\ i < j
       /\ stock_moves[i].reason = "daily_dose" /\ stock_moves[j].reason = "daily_dose"
       /\ stock_moves[i].batch_id = stock_moves[j].batch_id
       /\ i <= Min(Len(tx_moves), Len(tx2_moves))
       /\ j > Min(Len(tx_moves), Len(tx2_moves))

\* C11: audit-log immutability.  No step of a run, an adjustment or an
\* ingestion deletes a movement or changes one of its fields: every step
\* leaves the movements that were in stock_moves where they were, as they
\* were, and at most appends to them.
C11_AuditLogImmutable ==
  [][/\ Len(stock_moves') >= Len(stock_moves)
     /\ SubSeq(stock_moves', 1, Len(stock_moves)) = stock_moves]_vars

\* C12: manual adjustment is atomic.  No durable state has a batch whose
\* stock_units differs from its initial stock plus the signed sum of its
\* movements: the adjusted stock and the balancing adjustment movement become
\* visible together.
C12_AdjustmentAtomic ==
  \A b \in DOMAIN batches :
    batches[b].stock_units = stock0[b] + MoveSum(stock_moves, b)

\* C18: manual adjustment balance.  Once an adjustment is complete (its
\* movement is logged), the ledger reconciles: the logged difference is the
\* new quantity minus the stock the batch really had, also when a daily run
\* changed the batch after the dashboard had read it.
C18_AdjustmentBalance ==
  adj = NoAdj =>
    \A b \in DOMAIN batches :
      batches[b].stock_units = stock0[b] + MoveSum(stock_moves, b)

\* The invocation is a forced one for the date the previous one committed.
ForcedRepeat ==
  runs >= 2 /\ force /\ prev.pc = "Committed" /\ prev.date = run_date

\* C21: reclamation is idempotent under force.  A forced re-run for the date
\* the previous run committed appends no expired movement: all it appends
\* are consumption and shortfall movements, and every batch the ledger has an
\* expired movement for is still at 0 after its reclamation step and when it
\* commits.
C21_ReclaimIdempotent ==
  (ForcedRepeat /\ pc \in {"Allocating", "Committed"}) =>
    /\ \A i \in RunMoveIds : tx_moves[i].reason \in {"daily_dose", "shortfall"}
    /\ \A j \in DOMAIN pre.stock_moves :
         pre.stock_moves[j].reason = "expired" =>
           tx_batches[pre.stock_moves[j].batch_id].stock_units = 0

\* A forced re-run committed a consumption for a date whose first run had
\* scrapped a batch.
C21_Witness ==
  /\ ForcedRepeat /\ pc = "Committed"
  /\ \E j \in DOMAIN pre.stock_moves :
       /\ pre.stock_moves[j].reason = "expired"
       /\ pre.stock_moves[j].ts = log_ts(run_date)
       /\ pre.stock_moves[j].qty_change < 0
  /\ \E i \in RunMoveIds : tx_moves[i].reason = "daily_dose"

\* stock_units of batch b just before the connection wrote movement i: the
\* stock at the start of the invocation plus its own earlier movements.
StockBefore(b, i) ==
  pre.batches[b].stock_units +
    SumOver({k \in RunMoveIds : k < i /\ tx_moves[k].batch_id = b},
            [k \in DOMAIN tx_moves |-> tx_moves[k].qty_change])

\* C22: a daily run never increases stock.  Every consumption and expired
\* movement the invocation has written has a strictly negative qty_change of
\* magnitude at most the stock its batch held just before it, every shortfall
\* movement has qty_change 0, and no batch holds more than when the
\* invocation started.
C22_NeverIncreases ==
  /\ \A i \in RunMoveIds :
       IF tx_moves[i].reason = "shortfall"
         THEN tx_moves[i].qty_change = 0
         ELSE /\ tx_moves[i].qty_change < 0
              /\ -tx_moves[i].qty_change <= StockBefore(tx_moves[i].batch_id, i)
  /\ pc \in {"Allocating", "Committed"} =>
       \A b \in BatchIds : tx_batches[b].stock_units <= pre.batches[b].stock_units

\* A committed run wrote an expired, a consumption and a shortfall movement,
\* the consumption taking only part of its batch.
C22_Witness ==
  /\ pc = "Committed"
  /\ \E i, j, k \in RunMoveIds :
       /\ tx_moves[i].reason = "expired"
       /\ tx_moves[j].reason = "daily_dose"
       /\ -tx_moves[j].qty_change < StockBefore(tx_moves[j].batch_id, j)
       /\ tx_moves[k].reason = "shortfall"

\* C23: receiving stock preserves reconciliation.  Once no receipt is half
\* applied, every batch, the ones receipts created included, holds its
\* initial stock plus the signed sum of its movements: each receipt raised
\* its batch by its quantity and logged one receipt movement of that quantity
\* for that batch, also with a daily run or another receipt in between.
C23_ReceiptReconciles ==
  rcv = <<>> =>
    \A b \in DOMAIN batches :
      batches[b].stock_units = stock0[b] + MoveSum(stock_moves, b)

====
